---- MODULE Spec2Model ----
(***************************************************************************)
(* The AdventureWorks agent service (agent/agent_service.py) and the tool  *)
(* server (agent/mcp_server.py) as a state machine.                        *)
(*                                                                         *)
(*   Spec      one /chat request: chat -> execute_agent -> the             *)
(*             AgentExecutor loop -> tools -> ToolCallbackHandler.         *)
(*   ToolSpec  the tools called one at a time with inputs and collaborator *)
(*             outcomes drawn from bounded sets.                           *)
(*   QuerySpec query_database alone, on both transports, over a wide set   *)
(*             of query texts.                                             *)
(*   ClassifySpec, AnyCheckpointSpec  classify_email_type, call after call *)
(*             in one process, on trained and on hand-edited checkpoints.  *)
(*   InboxSpec fetch_emails once, on both transports, on mailboxes from    *)
(*             empty to larger than the cap.                               *)
(*   McpSpec   each tool of the tool server called once.                   *)
(*   ChatSpec  /chat requests one after another, with their histories.     *)
(*   HandlerSpec  the callbacks of several tool runs delivered to one      *)
(*             ToolCallbackHandler in any order.                           *)
(*                                                                         *)
(* Python's None is the empty tuple, a present value v is <<v>>.           *)
(***************************************************************************)
EXTENDS Integers, Sequences, FiniteSets, TLC

VARIABLES
    pc,                      \* position of the /chat request
    iterations,              \* AgentExecutor: rounds completed
    pending,                 \* tool calls of this round not yet performed
    cur,                     \* the tool call being performed
    intermediate_steps,      \* AgentExecutor: <<tool, observation>> pairs
    tool_calls,              \* ToolCallbackHandler.tool_calls
    current_tool_start_time, \* ToolCallbackHandler.current_tool_start_time
    now,                     \* datetime.now()
    response,                \* what the chat handler sent back
    planned,                 \* history: actions the agent planned so far
    ended_by,                \* history: what ended the run
    started,                 \* history: tool names in the order tool.run began
    deviations,              \* rounds in which the remote model left the plain case
    db_tables,               \* the database: the tables that exist
    db_open,                 \* connections open now
    db_opened,               \* connections opened so far
    db_executed,             \* statements handed to cursor.execute so far
    token,                   \* the OAuth token file
    gmail_inbox,             \* mail API: ids of the messages in the mailbox, newest first
    gmail_unread,            \* mail API: ids of messages labelled UNREAD
    gmail_sent,              \* mail API: messages sent, as <<thread, to>>
    gmail_calls,             \* mail API: calls made so far
    classifier,              \* _email_classifier_tokenizer / _email_classifier_model
    checkpoint,              \* models/email_classifier_bert_tiny: id2label, weights
    call,                    \* ToolSpec: the last direct tool call and its result
    ncalls,                  \* ToolSpec: direct calls made
    chat_history,            \* execute_agent: the InMemoryChatMessageHistory's messages
    served,                  \* history: the requests answered so far, oldest first
    runs                     \* history: the tool runs whose callbacks were delivered

agent_vars == <<pc, iterations, pending, cur, intermediate_steps, tool_calls,
                current_tool_start_time, now, response, planned, ended_by,
                started, deviations>>
env_vars == <<db_tables, db_open, db_opened, db_executed, token, gmail_inbox, gmail_unread,
              gmail_sent, gmail_calls, classifier, checkpoint>>
direct_vars == <<call, ncalls>>
aux_vars == <<chat_history, served, runs>>
vars == <<pc, iterations, pending, cur, intermediate_steps, tool_calls,
          current_tool_start_time, now, response, planned, ended_by,
          started, deviations, db_tables, db_open, db_opened, db_executed, token,
          gmail_inbox, gmail_unread, gmail_sent, gmail_calls, classifier, checkpoint, call,
          ncalls, chat_history, served, runs>>

None == <<>>
Some(v) == <<v>>

(***************************************************************************)
(* Bounds of the model.                                                    *)
(***************************************************************************)
MaxDeviations == 1
MaxBatch == 2
MaxCalls == 2
MaxInbox == 22
MaxRequests == 2
MaxRuns == 3

(***************************************************************************)
(* Text: str.strip, str.upper, str.startswith.                             *)
(***************************************************************************)
Whitespace == {" ", "\t", "\n"}
LowerCase == "abcdefghijklmnopqrstuvwxyz"
UpperCase == "ABCDEFGHIJKLMNOPQRSTUVWXYZ"

CharAt(s, i) == SubSeq(s, i, i)

SetMin(S) == CHOOSE x \in S : \A y \in S : x <= y
SetMax(S) == CHOOSE x \in S : \A y \in S : y <= x

\* str.strip(): from the first to the last character that is not whitespace
Inked(s) == {i \in 1..Len(s) : CharAt(s, i) \notin Whitespace}
Strip(s) == IF Inked(s) = {} THEN "" ELSE SubSeq(s, SetMin(Inked(s)), SetMax(Inked(s)))

UpperOf ==
    [c \in {CharAt(LowerCase, i) : i \in 1..Len(LowerCase)} |->
        CharAt(UpperCase, CHOOSE i \in 1..Len(LowerCase) : CharAt(LowerCase, i) = c)]
UpperChar(c) == IF c \in DOMAIN UpperOf THEN UpperOf[c] ELSE c

RECURSIVE UpperFrom(_, _)
UpperFrom(s, i) ==
    IF i > Len(s) THEN "" ELSE UpperChar(CharAt(s, i)) \o UpperFrom(s, i + 1)

\* str.upper()
Upper(s) == UpperFrom(s, 1)

StartsWith(s, prefix) ==
    Len(s) >= Len(prefix) /\ SubSeq(s, 1, Len(prefix)) = prefix

Contains(s, sub) ==
    \E i \in 1..(Len(s) - Len(sub) + 1) : SubSeq(s, i, i + Len(sub) - 1) = sub

(***************************************************************************)
(* The environment the tools act on, and what one tool run yields: the     *)
(* value it returned (or the exception it raised) and the environment      *)
(* after it.  o is what the collaborators do during the run.               *)
(***************************************************************************)
Env ==
    [db_tables |-> db_tables, db_open |-> db_open, db_opened |-> db_opened,
     db_executed |-> db_executed, token |-> token, gmail_inbox |-> gmail_inbox,
     gmail_unread |-> gmail_unread,
     gmail_sent |-> gmail_sent, gmail_calls |-> gmail_calls,
     classifier |-> classifier, checkpoint |-> checkpoint]

Ret(out, env) == [out |-> out, raised |-> FALSE, env |-> env]
Raise(msg, env) == [out |-> msg, raised |-> TRUE, env |-> env]

\* try: <body> except Exception as e: return f"{prefix}{str(e)}"
CaughtNothing(prefix, r) == r
Caught(prefix, r) ==
    IF r.raised THEN Ret(prefix \o r.out, r.env) ELSE r

\* The collaborators behaving well.
Smooth ==
    [db |-> "ok", rows |-> 1, refresh |-> "ok", mail |-> "none",
     load |-> "ok", infer |-> "ok"]

(***************************************************************************)
(* Database tools.                                                         *)
(***************************************************************************)
SELECT == "SELECT"
SafetyRejection == "Error: Only SELECT queries are allowed for safety."
PreviewRows == 10

\* psycopg.connect
get_db_connection(env, o) ==
    IF o.db = "connect_error"
    THEN Raise("connection refused", env)
    ELSE Ret("", [env EXCEPT !.db_open = @ + 1, !.db_opened = @ + 1])

\* cur.execute(stmt): the driver runs every statement of the text.
execute(stmt, env, o) ==
    LET tried == [env EXCEPT !.db_executed = Append(@, stmt)] IN
    IF o.db = "execute_error"
    THEN Raise("syntax error", tried)
    ELSE Ret("", [tried EXCEPT !.db_tables =
                      IF Contains(Upper(stmt), "DROP TABLE T") THEN @ \ {"t"} ELSE @])

\* leaving "with get_db_connection() as conn"
release_keeps_open(env) == env
release(env) == [env EXCEPT !.db_open = @ - 1]

Min(a, b) == IF a < b THEN a ELSE b

FormatRows(n) ==
    IF n = 0
    THEN "Query executed successfully but returned no results."
    ELSE "Found " \o ToString(n) \o " results: first " \o ToString(Min(n, PreviewRows))

\* not query.strip().upper().startswith("SELECT") is the rejection
is_select_token(query) ==
    \/ Upper(Strip(query)) = SELECT
    \/ \E w \in Whitespace : StartsWith(Upper(Strip(query)), SELECT \o w)
is_select_anywhere(query) == Contains(Upper(Strip(query)), SELECT)
is_select(query) == StartsWith(Upper(Strip(query)), SELECT)

run_query_retrying(query, env, o) ==
    LET c == get_db_connection(env, o) IN
    IF c.raised THEN c
    ELSE LET e == execute(query, c.env, o) IN
         IF e.raised
         THEN LET again == execute(query, e.env, o) IN
              Raise(again.out, release(again.env))
         ELSE Ret(FormatRows(o.rows), release(e.env))
run_query(query, env, o) ==
    LET c == get_db_connection(env, o) IN
    IF c.raised THEN c
    ELSE LET e == execute(query, c.env, o) IN
         IF e.raised THEN Raise(e.out, release(e.env))
         ELSE Ret(FormatRows(o.rows), release(e.env))

query_database_cached(query, env, o) ==
    IF ~is_select(query)
    THEN Ret(SafetyRejection, env)
    ELSE IF \E i \in 1..Len(env.db_executed) : env.db_executed[i] = query
    THEN Ret(FormatRows(o.rows), env)
    ELSE Caught("Error executing query: ", run_query(query, env, o))
query_database(query, env, o) ==
    IF ~is_select(query)
    THEN Ret(SafetyRejection, env)
    ELSE Caught("Error executing query: ", run_query(query, env, o))

\* mcp_server.query_database: the same gate, rows or [{"error": ...}]
mcp_query_database(query, env, o) ==
    IF ~is_select(query)
    THEN Ret("[{error: Only SELECT queries are allowed for safety.}]", env)
    ELSE Caught("[{error}]: ", run_query(query, env, o))

TablesQuery == "SELECT table_schema, table_name FROM information_schema.tables"
ColumnsQuery == "SELECT column_name, data_type, is_nullable FROM information_schema.columns"

RECURSIVE run_columns(_, _, _)
run_columns(n, env, o) ==
    IF n = 0 THEN Ret("", env)
    ELSE LET e == execute(ColumnsQuery, env, o) IN
         IF e.raised THEN e ELSE run_columns(n - 1, e.env, o)

run_list_tables(env, o) ==
    LET c == get_db_connection(env, o) IN
    IF c.raised THEN c
    ELSE LET e == execute(TablesQuery, c.env, o) IN
         IF e.raised THEN Raise(e.out, release(e.env))
         ELSE IF env.db_tables = {}
         THEN Ret("No tables found in the database.", release(e.env))
         ELSE LET k == run_columns(Cardinality(env.db_tables), e.env, o) IN
              IF k.raised THEN Raise(k.out, release(k.env))
              ELSE Ret("Available tables (" \o ToString(Cardinality(env.db_tables)) \o ")",
                       release(k.env))

list_tables_with_schemas(env, o) ==
    Caught("Error listing tables with schemas: ", run_list_tables(env, o))

\* mcp_server.list_tables: one statement, the table names only
McpTablesQuery == "SELECT table_schema || '.' || table_name FROM information_schema.tables"
mcp_run_list_tables(env, o) ==
    LET c == get_db_connection(env, o) IN
    IF c.raised THEN c
    ELSE LET e == execute(McpTablesQuery, c.env, o) IN
         IF e.raised THEN Raise(e.out, release(e.env))
         ELSE Ret("[" \o ToString(Cardinality(env.db_tables)) \o " tables]", release(e.env))

mcp_list_tables(env, o) ==
    Caught("[Error listing tables: ", mcp_run_list_tables(env, o))

(***************************************************************************)
(* Gmail tools.  The messages in the mailbox, which of them are unread,    *)
(* what was sent and the token file are state.                             *)
(***************************************************************************)
Messages == <<"m1", "m2", "m3">>
MessageIds == {Messages[i] : i \in 1..Len(Messages)}
FromOf(id) ==
    CASE id = "m1" -> "Ann <ann@x.org>"
      [] id = "m2" -> "bob@y.org"
      [] OTHER -> "Cy <cy@z.org> (<old>)"
ThreadOf(id) == "thread-" \o id
Inbox(n) == [i \in 1..n |-> "m" \o ToString(i)]
FullInbox == Inbox(MaxInbox)
InboxIds(env) == {env.gmail_inbox[i] : i \in 1..Len(env.gmail_inbox)}
LimitCap == 20
AuthRequired == "Gmail authentication required. Please run 'python setup_gmail_auth.py' to generate token.json."

\* get_gmail_service: the token file is absent, valid, expired with a refresh
\* token, or invalid beyond refresh.
get_gmail_service(env, o) ==
    CASE env.token = "valid" -> Ret("", env)
      [] env.token = "expired" ->
            IF o.refresh = "error"
            THEN Raise("RefreshError", env)
            ELSE Ret("", [env EXCEPT !.token = "valid"])
      [] OTHER -> Raise(AuthRequired, env)

api(name, arg, env) == [env EXCEPT !.gmail_calls = Append(@, <<name, arg>>)]

\* the arguments of one messages().list request
ListRequest(maxResults, q) ==
    "maxResults=" \o ToString(maxResults) \o (IF q = "" THEN "" ELSE " q=" \o q)

\* messages().list(maxResults=limit, q='is:unread')
ListUnread(env, limit) ==
    LET all == SelectSeq(env.gmail_inbox, LAMBDA m : m \in env.gmail_unread)
    IN  SubSeq(all, 1, Min(limit, Len(all)))

RECURSIVE get_each(_, _, _)
get_each(ids, env, o) ==
    IF ids = <<>> THEN Ret("", env)
    ELSE LET e == api("get", Head(ids), env) IN
         IF o.mail = "get" THEN Raise("HttpError get", e)
         ELSE get_each(Tail(ids), e, o)

run_fetch_emails(limit, env, o) ==
    LET lim == Min(limit, LimitCap)
        s == get_gmail_service(env, o)
    IN  IF s.raised THEN s
        ELSE LET l == api("list", ListRequest(lim, "is:unread"), s.env) IN
             IF o.mail = "list" THEN Raise("HttpError list", l)
             ELSE LET ids == ListUnread(l, lim) IN
                  IF ids = <<>> THEN Ret("No unread emails found in inbox.", l)
                  ELSE LET g == get_each(ids, l, o) IN
                       IF g.raised THEN g
                       ELSE Ret("Found " \o ToString(Len(ids)) \o " unread emails", g.env)

fetch_emails(limit, env, o) ==
    Caught("Error fetching emails: ", run_fetch_emails(limit, env, o))

\* mcp_server.get_gmail_service: the same steps, another text
McpAuthRequired == "Authentication required. Please run 'python setup_gmail_auth.py' locally to generate token.json."
mcp_get_gmail_service(env, o) ==
    CASE env.token = "valid" -> Ret("", env)
      [] env.token = "expired" ->
            IF o.refresh = "error"
            THEN Raise("RefreshError", env)
            ELSE Ret("", [env EXCEPT !.token = "valid"])
      [] OTHER -> Raise(McpAuthRequired, env)

\* messages().list(maxResults=limit): no label filter
ListAll(env, limit) == SubSeq(env.gmail_inbox, 1, Min(limit, Len(env.gmail_inbox)))

\* a list of n {id, subject, sender, snippet} entries as the transport sends it
EmailList(n) == IF n = 0 THEN "[]" ELSE "[" \o ToString(n) \o " emails]"

\* mcp_server.fetch_emails: limit goes to maxResults as given, every message
\* listed is fetched, the list is returned also when it is empty
mcp_run_fetch_emails(limit, env, o) ==
    LET s == mcp_get_gmail_service(env, o)
    IN  IF s.raised THEN s
        ELSE LET l == api("list", ListRequest(limit, ""), s.env) IN
             IF o.mail = "list" THEN Raise("HttpError list", l)
             ELSE LET ids == ListAll(l, limit)
                      g == get_each(ids, l, o)
                  IN  IF g.raised THEN g ELSE Ret(EmailList(Len(ids)), g.env)

mcp_fetch_emails(limit, env, o) ==
    Caught("[{error}]: ", mcp_run_fetch_emails(limit, env, o))

\* re.search(r'<(.+?)>', original_from): the leftmost "<" that has a ">" at
\* least two places on, up to the nearest such ">".
Closes(s, i) == {j \in (i + 2)..Len(s) : CharAt(s, j) = ">"}
Opens(s) == {i \in 1..Len(s) : CharAt(s, i) = "<" /\ Closes(s, i) # {}}
ExtractAddress_greedy(from) ==
    IF Opens(from) = {} THEN from
    ELSE LET i == SetMin(Opens(from)) IN SubSeq(from, i + 1, SetMax(Closes(from, i)) - 1)
ExtractAddress(from) ==
    IF Opens(from) = {} THEN from
    ELSE LET i == SetMin(Opens(from)) IN SubSeq(from, i + 1, SetMin(Closes(from, i)) - 1)

\* messages().get(userId='me', id=message_id).execute(): an id the mailbox
\* does not hold is answered with an HTTP error
get_message_lenient(message_id, env, o) ==
    IF o.mail = "get"
    THEN Raise("HttpError 404", api("get", message_id, env))
    ELSE Ret("", api("get", message_id, env))
get_message(message_id, env, o) ==
    IF o.mail = "get" \/ message_id \notin InboxIds(env)
    THEN Raise("HttpError 404", api("get", message_id, env))
    ELSE Ret("", api("get", message_id, env))

run_reply_to_email(message_id, body, env, o) ==
    LET s == get_gmail_service(env, o) IN
    IF s.raised THEN s
    ELSE LET g == get_message(message_id, s.env, o) IN
         IF g.raised THEN g
         ELSE LET to == ExtractAddress(FromOf(message_id))
                  snd == api("send", message_id, g.env)
              IN  IF o.mail = "send" THEN Raise("HttpError send", snd)
                  ELSE LET sent == [snd EXCEPT !.gmail_sent =
                                       Append(@, <<ThreadOf(message_id), to>>)]
                           m == api("modify", message_id, sent)
                       IN  IF o.mail = "modify" THEN Raise("HttpError modify", m)
                           ELSE Ret("Reply sent successfully to " \o to
                                        \o "! The original email has been marked as read. Message ID: "
                                        \o "sent-" \o message_id,
                                    [m EXCEPT !.gmail_unread = @ \ {message_id}])

reply_to_email_rolling_back(message_id, body, env, o) ==
    IF run_reply_to_email(message_id, body, env, o).raised
    THEN Ret("Failed to reply to email: " \o run_reply_to_email(message_id, body, env, o).out,
             [run_reply_to_email(message_id, body, env, o).env
                 EXCEPT !.gmail_sent = env.gmail_sent])
    ELSE run_reply_to_email(message_id, body, env, o)
reply_to_email(message_id, body, env, o) ==
    Caught("Failed to reply to email: ", run_reply_to_email(message_id, body, env, o))

\* mcp_server.send_reply(to, subject, body): one send, to the address given,
\* with no threadId ("" below) and no label change
mcp_run_send_reply(to, subject, body, env, o) ==
    LET s == mcp_get_gmail_service(env, o) IN
    IF s.raised THEN s
    ELSE LET snd == api("send", to, s.env) IN
         IF o.mail = "send" THEN Raise("HttpError send", snd)
         ELSE Ret("Email sent successfully! Message Id: sent-" \o to,
                  [snd EXCEPT !.gmail_sent = Append(@, <<"", to>>)])

mcp_send_reply(to, subject, body, env, o) ==
    Caught("Failed to send email: ", mcp_run_send_reply(to, subject, body, env, o))

\* mcp_server.classify_email: a fixed text, no model
mcp_classify_email(email_body, env, o) ==
    Ret("Classification: General Inquiry (Placeholder)", env)

(***************************************************************************)
(* Email classification.                                                   *)
(***************************************************************************)
\* train_email_classifier.build_label_mapping: the labels of the training
\* data, sorted, numbered from 0.
AllLabels == <<"inquiry", "issue", "suggestion">>
build_label_mapping(labels) ==
    LET sorted == SelectSeq(AllLabels, LAMBDA l : l \in labels)
    IN  [i \in 0..(Len(sorted) - 1) |-> sorted[i + 1]]
Id2Label == build_label_mapping({"inquiry", "issue", "suggestion"})

\* The trained weights: for a text, exp(logit) of each class.
Texts == {"Subject: Bug", "Subject: Idea", ""}
WeightTables ==
    {[t \in Texts |-> CASE t = "Subject: Bug" -> <<1, 8, 1>>
                        [] t = "Subject: Idea" -> <<1, 1, 1>>
                        [] OTHER -> <<2, 5, 5>>],
     [t \in Texts |-> CASE t = "Subject: Bug" -> <<3, 3, 1>>
                        [] t = "Subject: Idea" -> <<1, 2, 6>>
                        [] OTHER -> <<7, 1, 1>>]}
Logits(ck, text) ==
    IF text \in DOMAIN ck.weights THEN ck.weights[text] ELSE <<1, 1, 1>>

\* A checkpoint as train_email_classifier.main saves it: num_labels and
\* id2label from build_label_mapping.
Trained(labels, w) ==
    [id2label |-> build_label_mapping(labels), num_labels |-> Cardinality(labels),
     weights |-> w]
TrainedCheckpoints ==
    {Trained(L, w) : L \in (SUBSET {"inquiry", "issue", "suggestion"}) \ {{}},
                     w \in WeightTables}
ShippedCheckpoint ==
    Trained({"inquiry", "issue", "suggestion"},
            CHOOSE w \in WeightTables : w["Subject: Bug"] = <<1, 8, 1>>)
\* A config.json edited by hand: an id without a label, two ids with one label.
EditedCheckpoints ==
    {[ShippedCheckpoint EXCEPT !.id2label =
          (0 :> "inquiry" @@ 2 :> "issue" @@ 5 :> "suggestion")],
     [ShippedCheckpoint EXCEPT !.id2label =
          (0 :> "issue" @@ 1 :> "issue" @@ 2 :> "inquiry")]}

NotLoaded ==
    [tokenizer |-> FALSE, model |-> FALSE, tokenizer_loads |-> 0, model_loads |-> 0]

\* get_email_classifier: load both when either is missing.
get_email_classifier_always_loads(env, o) ==
    IF o.load = "tokenizer_error" THEN Raise("OSError tokenizer", env)
    ELSE LET t == [env EXCEPT !.classifier.tokenizer = TRUE,
                              !.classifier.tokenizer_loads = @ + 1] IN
         IF o.load = "model_error" THEN Raise("OSError model", t)
         ELSE Ret("", [t EXCEPT !.classifier.model = TRUE,
                                !.classifier.model_loads = @ + 1])
get_email_classifier(env, o) ==
    IF env.classifier.tokenizer /\ env.classifier.model THEN Ret("", env)
    ELSE IF o.load = "tokenizer_error" THEN Raise("OSError tokenizer", env)
    ELSE LET t == [env EXCEPT !.classifier.tokenizer = TRUE,
                              !.classifier.tokenizer_loads = @ + 1] IN
         IF o.load = "model_error" THEN Raise("OSError model", t)
         ELSE Ret("", [t EXCEPT !.classifier.model = TRUE,
                                !.classifier.model_loads = @ + 1])

\* torch.softmax, in hundredths, rounded down
Scale == 100
RECURSIVE SumSeq(_)
SumSeq(w) == IF w = <<>> THEN 0 ELSE Head(w) + SumSeq(Tail(w))
Softmax(w) == [i \in 1..Len(w) |-> (w[i] * Scale) \div SumSeq(w)]

ArgMax_first_class(probs) == 0

\* np.argmax: the first index holding the maximum (0-based)
ArgMax(probs) ==
    (CHOOSE i \in 1..Len(probs) :
        /\ \A j \in 1..Len(probs) : probs[j] <= probs[i]
        /\ \A j \in 1..(i - 1) : probs[j] < probs[i]) - 1

AllScores_from_second(probs, id2label) ==
    LET present == {i \in 1..(Len(probs) - 1) : i \in DOMAIN id2label}
    IN  [l \in {id2label[i] : i \in present} |->
            probs[SetMax({i \in present : id2label[i] = l}) + 1]]

\* all_scores: for i in range(len(probs)), ids without a label skipped, a
\* later id overwriting an earlier one of the same label
AllScores(probs, id2label) ==
    LET present == {i \in 0..(Len(probs) - 1) : i \in DOMAIN id2label}
    IN  [l \in {id2label[i] : i \in present} |->
            probs[SetMax({i \in present : id2label[i] = l}) + 1]]

\* json.dumps(result), without all_scores
Dumps(result) ==
    "{label: " \o result.label \o ", confidence: " \o ToString(result.confidence) \o "}"
ClassificationFailed(msg) ==
    "{error: Classification failed: " \o msg \o ", label: unknown, confidence: 0.0}"

Classified(result, env) ==
    [out |-> Dumps(result), raised |-> FALSE, env |-> env, result |-> result]

classify_on_cache_state(email_text, env, o) ==
    LET c == get_email_classifier(env, o) IN
    IF c.raised THEN c
    ELSE IF o.infer = "error" THEN Raise("RuntimeError", c.env)
    ELSE LET ck == c.env.checkpoint
             probs == Softmax(SubSeq(Logits(ck, email_text), 1, ck.num_labels))
             predicted_id == IF env.classifier.model THEN Len(probs) - 1 ELSE ArgMax(probs)
         IN  IF predicted_id \notin DOMAIN ck.id2label
             THEN Raise("Label mapping not found for predicted ID: "
                            \o ToString(predicted_id), c.env)
             ELSE Classified([label |-> ck.id2label[predicted_id],
                              confidence |-> probs[predicted_id + 1],
                              all_scores |-> AllScores(probs, ck.id2label)], c.env)
run_classify_email_type(email_text, env, o) ==
    LET c == get_email_classifier(env, o) IN
    IF c.raised THEN c
    ELSE IF o.infer = "error" THEN Raise("RuntimeError", c.env)
    ELSE LET ck == c.env.checkpoint
             probs == Softmax(SubSeq(Logits(ck, email_text), 1, ck.num_labels))
             predicted_id == ArgMax(probs)
         IN  IF predicted_id \notin DOMAIN ck.id2label
             THEN Raise("Label mapping not found for predicted ID: "
                            \o ToString(predicted_id), c.env)
             ELSE Classified([label |-> ck.id2label[predicted_id],
                              confidence |-> probs[predicted_id + 1],
                              all_scores |-> AllScores(probs, ck.id2label)], c.env)

\* except Exception as e: the structured error result
classify_reraises(email_text, env, r) ==
    IF r.raised
    THEN [out |-> r.out, raised |-> TRUE, env |-> r.env,
          result |-> [error |-> r.out, label |-> "unknown", confidence |-> 0]]
    ELSE r
classify_caught(email_text, env, r) ==
    IF r.raised
    THEN [out |-> ClassificationFailed(r.out), raised |-> FALSE, env |-> r.env,
          result |-> [error |-> "Classification failed: " \o r.out,
                      label |-> "unknown", confidence |-> 0]]
    ELSE r

classify_email_type(email_text, env, o) ==
    classify_caught(email_text, env, run_classify_email_type(email_text, env, o))

(***************************************************************************)
(* ToolCallbackHandler.  h is the handler: its tool_calls list and its     *)
(* current_tool_start_time; t is the reading of datetime.now().            *)
(***************************************************************************)
Last(seq) == seq[Len(seq)]

NewHandler == [tool_calls |-> <<>>, current_tool_start_time |-> None]

on_tool_start_twice(h, tool_name, input_str, t) ==
    [tool_calls |->
        h.tool_calls \o
        <<[tool_name |-> tool_name, input |-> input_str, output |-> None,
           error |-> None, timestamp |-> t, duration_ms |-> None],
          [tool_name |-> tool_name, input |-> input_str, output |-> None,
           error |-> None, timestamp |-> t, duration_ms |-> None]>>,
     current_tool_start_time |-> Some(t)]
on_tool_start(h, tool_name, input_str, t) ==
    [tool_calls |->
        Append(h.tool_calls,
               [tool_name |-> tool_name, input |-> input_str, output |-> None,
                error |-> None, timestamp |-> t, duration_ms |-> None]),
     current_tool_start_time |-> Some(t)]

on_tool_end_first_record(h, output, t) ==
    IF h.tool_calls # <<>> /\ Last(h.tool_calls).output = None
    THEN [h EXCEPT !.tool_calls[1].output = Some(output),
                   !.tool_calls[1].duration_ms = Some(t - h.current_tool_start_time[1])]
    ELSE h
on_tool_end(h, output, t) ==
    IF h.tool_calls # <<>> /\ Last(h.tool_calls).output = None
    THEN [h EXCEPT !.tool_calls[Len(h.tool_calls)].output = Some(output),
                   !.tool_calls[Len(h.tool_calls)].duration_ms =
                        Some(t - h.current_tool_start_time[1])]
    ELSE h

on_tool_error(h, error) ==
    IF h.tool_calls # <<>> /\ Last(h.tool_calls).output = None
    THEN [h EXCEPT !.tool_calls[Len(h.tool_calls)].error = Some(error)]
    ELSE h

Handler == [tool_calls |-> tool_calls,
            current_tool_start_time |-> current_tool_start_time]

(***************************************************************************)
(* execute_agent: the registry, the executor's settings, and what the      *)
(* remote model may ask for.  A tool call is [tool, args], args a sequence *)
(* of <<field, value>> pairs.                                              *)
(***************************************************************************)
tools ==
    {"query_database", "list_tables_with_schemas", "fetch_emails",
     "reply_to_email", "classify_email_type"}
max_iterations == 10
DefaultLimit == 5

\* AgentExecutor._should_continue
should_continue_one_more(i) == i <= max_iterations
should_continue(i) == i < max_iterations

Required(tool) ==
    CASE tool = "query_database" -> {"query"}
      [] tool = "reply_to_email" -> {"message_id", "body"}
      [] tool = "classify_email_type" -> {"email_text"}
      [] OTHER -> {}

Fields(args) == {args[i][1] : i \in 1..Len(args)}
Arg(args, field) == (CHOOSE i \in 1..Len(args) : args[i][1] = field)
ArgOf(args, field) == args[Arg(args, field)][2]

\* BaseTool._parse_input against the tool's args schema
ValidArgs(c) == Required(c.tool) \subseteq Fields(c.args)

\* AgentExecutor's name_to_tool_map lookup: InvalidTool stands in for a name
\* that is not registered; ExceptionTool carries a parsing error.
Lookup_first_tool(name) ==
    IF name \in tools \cup {"_Exception"} THEN name ELSE "query_database"
Lookup(name) ==
    IF name \in tools \cup {"_Exception"} THEN name ELSE "invalid_tool"

InvalidToolMessage(name) == name \o " is not a valid tool, try one of [tools]."
ParsingErrorMessage == "Invalid or incomplete response"
StoppedMessage == "Agent stopped due to max iterations."
NoOutputMessage == "I apologize, but I couldn't generate a response."
ErrorPrefix == "I encountered an error: "

PlainCall == [tool |-> "query_database", args |-> <<<<"query", "SELECT 1">>>>]
UnknownCall == [tool |-> "send_email", args |-> <<<<"to", "ann@x.org">>>>]
MissingBodyCall == [tool |-> "reply_to_email", args |-> <<<<"message_id", "m1">>>>]
ParseErrorCall == [tool |-> "_Exception", args |-> <<<<"error", ParsingErrorMessage>>>>]
OtherCalls ==
    {[tool |-> "query_database", args |-> <<<<"query", " drop table t">>>>],
     UnknownCall,
     [tool |-> "list_tables_with_schemas", args |-> <<>>],
     [tool |-> "fetch_emails", args |-> <<>>],
     [tool |-> "reply_to_email", args |-> <<<<"message_id", "m1">>, <<"body", "Hello">>>>],
     [tool |-> "classify_email_type", args |-> <<<<"email_text", "Subject: Bug">>>>]}

\* A round's worth of tool calls that costs the deviation budget.
RECURSIVE Repeat(_, _)
Repeat(x, n) == IF n = 0 THEN <<>> ELSE <<x>> \o Repeat(x, n - 1)
DeviantRounds ==
    {<<c>> : c \in OtherCalls} \cup {<<ParseErrorCall>>}
        \cup {Repeat(PlainCall, n) : n \in 2..MaxBatch}
        \cup {<<UnknownCall, PlainCall>>}

FinalTexts == {"", "Here is the answer."}

\* What a collaborator may do wrong during one tool run of the agent.
Failures(tool) ==
    CASE tool = "query_database" ->
            {[Smooth EXCEPT !.db = "connect_error"], [Smooth EXCEPT !.db = "execute_error"]}
      [] tool = "reply_to_email" -> {[Smooth EXCEPT !.mail = "modify"]}
      [] tool = "classify_email_type" -> {[Smooth EXCEPT !.load = "model_error"]}
      [] OTHER -> {}

\* tool.run(tool_input): the registered implementation, or the stand-in's text.
RunTool(c, env, o) ==
    CASE c.tool = "query_database" -> query_database(ArgOf(c.args, "query"), env, o)
      [] c.tool = "list_tables_with_schemas" -> list_tables_with_schemas(env, o)
      [] c.tool = "fetch_emails" ->
            fetch_emails(IF "limit" \in Fields(c.args) THEN ArgOf(c.args, "limit")
                         ELSE DefaultLimit, env, o)
      [] c.tool = "reply_to_email" ->
            reply_to_email(ArgOf(c.args, "message_id"), ArgOf(c.args, "body"), env, o)
      [] c.tool = "classify_email_type" ->
            classify_email_type(ArgOf(c.args, "email_text"), env, o)
      [] c.tool = "_Exception" -> Ret(ArgOf(c.args, "error"), env)
      [] OTHER -> Ret(InvalidToolMessage(ArgOf(c.args, "requested_tool_name")), env)

(***************************************************************************)
(* execute_agent's two ways out, and the chat handler's two ways out.      *)
(***************************************************************************)
\* response_text = result.get("output", <apology>); return response_text,
\* tool_callback.tool_calls.  result is the executor's "output" entry: Some(text),
\* or None when the key is missing.
execute_agent_result(result, h) ==
    [raised |-> FALSE,
     response |-> IF result = None THEN NoOutputMessage ELSE result[1],
     tool_calls |-> h.tool_calls]

\* except Exception as e: return f"I encountered an error: {str(e)}", []
execute_agent_failure_reraises(e, h) ==
    [raised |-> TRUE, response |-> e, tool_calls |-> <<>>]
execute_agent_failure(e, h) ==
    [raised |-> FALSE, response |-> ErrorPrefix \o e, tool_calls |-> <<>>]

\* An exception raised in execute_agent before its try block.
execute_agent_raises(e) == [raised |-> TRUE, response |-> e, tool_calls |-> <<>>]

\* chat: ChatResponse(response=response_text, tool_calls=tool_calls), or
\* HTTPException(status_code=500, detail=f"Error processing request: {str(e)}")
chat(r) ==
    IF r.raised
    THEN [status |-> 500, response |-> "Error processing request: " \o r.response,
          tool_calls |-> <<>>]
    ELSE [status |-> 200, response |-> r.response, tool_calls |-> r.tool_calls]

SetEnv(e) ==
    /\ db_tables' = e.db_tables
    /\ db_open' = e.db_open
    /\ db_opened' = e.db_opened
    /\ db_executed' = e.db_executed
    /\ token' = e.token
    /\ gmail_inbox' = e.gmail_inbox
    /\ gmail_unread' = e.gmail_unread
    /\ gmail_sent' = e.gmail_sent
    /\ gmail_calls' = e.gmail_calls
    /\ classifier' = e.classifier
    /\ checkpoint' = e.checkpoint

SetHandler(h) ==
    /\ tool_calls' = h.tool_calls
    /\ current_tool_start_time' = h.current_tool_start_time

Respond(r, why) ==
    /\ response' = Some(chat(r))
    /\ ended_by' = why
    /\ pc' = "responded"

NoCall == [tool |-> "", args |-> <<>>]

(***************************************************************************)
(* One /chat request.                                                      *)
(***************************************************************************)
\* POST /chat: chat calls execute_agent, which builds the handler, the model
\* client and the executor.  The client's constructor is outside
\* execute_agent's try: when it raises, chat answers 500.
Chat ==
    /\ pc = "idle"
    /\ \E built \in BOOLEAN :
          IF built
          THEN /\ pc' = "plan"
               /\ SetHandler(NewHandler)
               /\ UNCHANGED <<response, ended_by>>
          ELSE /\ Respond(execute_agent_raises("api_key"), "setup_error")
               /\ UNCHANGED <<tool_calls, current_tool_start_time>>
    /\ UNCHANGED <<iterations, pending, cur, intermediate_steps, now, planned,
                   started, deviations>>
    /\ UNCHANGED <<env_vars, direct_vars, aux_vars>>

\* The loop's test: _should_continue fails at max_iterations and the
\* executor returns the stopped response.
Stop ==
    /\ pc = "plan"
    /\ ~should_continue(iterations)
    /\ Respond(execute_agent_result(Some(StoppedMessage), Handler), "stop")
    /\ UNCHANGED <<iterations, pending, cur, intermediate_steps, tool_calls,
                   current_tool_start_time, now, planned, started, deviations>>
    /\ UNCHANGED <<env_vars, direct_vars, aux_vars>>

\* agent.plan: the call of the remote model raises.
PlanFails ==
    /\ pc = "plan"
    /\ should_continue(iterations)
    /\ Respond(execute_agent_failure("APIConnectionError", Handler), "model_error")
    /\ UNCHANGED <<iterations, pending, cur, intermediate_steps, tool_calls,
                   current_tool_start_time, now, planned, started, deviations>>
    /\ UNCHANGED <<env_vars, direct_vars, aux_vars>>

\* agent.plan: the remote model answers without tool calls (AgentFinish).
PlanFinal ==
    /\ pc = "plan"
    /\ should_continue(iterations)
    /\ \E text \in FinalTexts :
          Respond(execute_agent_result(Some(text), Handler), "final")
    /\ UNCHANGED <<iterations, pending, cur, intermediate_steps, tool_calls,
                   current_tool_start_time, now, planned, started, deviations>>
    /\ UNCHANGED <<env_vars, direct_vars, aux_vars>>

\* agent.plan: the remote model asks for tool calls, one or several in one
\* message (create_tool_calling_agent plans a list of actions).
PlanTools ==
    /\ pc = "plan"
    /\ should_continue(iterations)
    /\ \/ /\ pending' = <<PlainCall>>
          /\ UNCHANGED deviations
       \/ /\ pending' = <<MissingBodyCall>>
          /\ UNCHANGED deviations
       \/ /\ deviations < MaxDeviations
          /\ pending' \in DeviantRounds
          /\ deviations' = deviations + 1
    /\ planned' = planned + Len(pending')
    /\ pc' = "act"
    /\ UNCHANGED <<iterations, cur, intermediate_steps, tool_calls,
                   current_tool_start_time, now, response, ended_by, started>>
    /\ UNCHANGED <<env_vars, direct_vars, aux_vars>>

\* The executor may begin a tool call only when none is running.
MayStartWhileRunning == pc \in {"act", "running"} /\ pending # <<>>
MayStart == pc = "act" /\ pending # <<>>

\* _perform_agent_action, first half: tool.run fires on_tool_start.
ToolStart ==
    /\ MayStart
    /\ LET a == Head(pending)
           name == Lookup(a.tool)
           c == IF name = "invalid_tool"
                THEN [tool |-> name, args |-> <<<<"requested_tool_name", a.tool>>>>]
                ELSE [tool |-> name, args |-> a.args]
       IN  /\ cur' = c
           /\ SetHandler(on_tool_start(Handler, c.tool, c.args, now))
           /\ started' = Append(started, c.tool)
    /\ now' = now + 1
    /\ pc' = "running"
    /\ UNCHANGED <<iterations, pending, intermediate_steps, response, planned,
                   ended_by, deviations>>
    /\ UNCHANGED <<env_vars, direct_vars, aux_vars>>

\* The step after a tool call of the round: the next call, or the next round.
Advance ==
    /\ pending' = Tail(pending)
    /\ IF Tail(pending) = <<>>
       THEN /\ iterations' = iterations + 1
            /\ pc' = "plan"
       ELSE /\ pc' = "act"
            /\ UNCHANGED iterations

\* tool.run, second half: the arguments do not fit the schema.  The
\* validation error goes to on_tool_error and out of invoke, into
\* execute_agent's except.
ToolRejectsArgs ==
    /\ pc = "running"
    /\ ~ValidArgs(cur)
    /\ SetHandler(on_tool_error(Handler, "ValidationError"))
    /\ Respond(execute_agent_failure("ValidationError",
                                     on_tool_error(Handler, "ValidationError")),
               "validation_error")
    /\ UNCHANGED <<iterations, pending, cur, intermediate_steps, now, planned,
                   started, deviations>>
    /\ UNCHANGED <<env_vars, direct_vars, aux_vars>>

\* tool.run, second half: the tool runs.  When it returns, on_tool_end and
\* the observation joins the scratchpad; when it raises, on_tool_error and
\* the exception leaves invoke, into execute_agent's except.
ToolRun(o) ==
    /\ pc = "running"
    /\ ValidArgs(cur)
    /\ \E r \in {RunTool(cur, Env, o)} :
          /\ SetEnv(r.env)
          /\ IF r.raised
             THEN /\ SetHandler(on_tool_error(Handler, r.out))
                  /\ Respond(execute_agent_failure(r.out, on_tool_error(Handler, r.out)),
                             "tool_error")
                  /\ UNCHANGED <<iterations, pending, intermediate_steps, now>>
             ELSE /\ SetHandler(on_tool_end(Handler, r.out, now))
                  /\ intermediate_steps' = Append(intermediate_steps, <<cur.tool, r.out>>)
                  /\ now' = now + 1
                  /\ Advance
                  /\ UNCHANGED <<response, ended_by>>
    /\ UNCHANGED <<cur, planned, started, direct_vars, aux_vars>>

ToolRuns ==
    \/ /\ ToolRun(Smooth)
       /\ UNCHANGED deviations
    \/ /\ deviations < MaxDeviations
       /\ \E o \in Failures(cur.tool) : ToolRun(o)
       /\ deviations' = deviations + 1

Init ==
    /\ pc = "idle"
    /\ iterations = 0
    /\ pending = <<>>
    /\ cur = NoCall
    /\ intermediate_steps = <<>>
    /\ tool_calls = <<>>
    /\ current_tool_start_time = None
    /\ now = 0
    /\ response = None
    /\ planned = 0
    /\ ended_by = ""
    /\ started = <<>>
    /\ deviations = 0
    /\ db_tables = {"t"}
    /\ db_open = 0
    /\ db_opened = 0
    /\ db_executed = <<>>
    /\ token = "valid"
    /\ gmail_inbox = Messages
    /\ gmail_unread = MessageIds
    /\ gmail_sent = <<>>
    /\ gmail_calls = <<>>
    /\ classifier = NotLoaded
    /\ checkpoint = ShippedCheckpoint
    /\ call = None
    /\ ncalls = 0
    /\ chat_history = <<>>
    /\ served = <<>>
    /\ runs = <<>>

Next ==
    \/ Chat
    \/ Stop
    \/ PlanFails
    \/ PlanFinal
    \/ PlanTools
    \/ ToolStart
    \/ ToolRejectsArgs
    \/ ToolRuns

Spec == Init /\ [][Next]_vars

(***************************************************************************)
(* The tools called directly, one call at a time.                          *)
(***************************************************************************)
Pads == {"", " ", "\n\t"}
Bodies ==
    {"SELECT 1", "select 1", "SeLeCt 1", "SELECTED", "SELECT 1; DROP TABLE t",
     "DROP TABLE t", "drop table t", "SELEC", "", "S ELECT 1", "(SELECT 1)",
     "-- SELECT", "INSERT SELECT"}
QueryInputs == {p \o b \o q : p \in Pads, b \in Bodies, q \in {"", " "}}
FewQueries == {"SELECT 1", " select 1; drop table t", "DROP TABLE t"}

DbOutcomes ==
    {[Smooth EXCEPT !.rows = n] : n \in {0, 1, 12}}
        \cup {[Smooth EXCEPT !.db = e] : e \in {"connect_error", "execute_error"}}
MailOutcomes ==
    {[Smooth EXCEPT !.mail = m, !.refresh = r] :
        m \in {"none", "list", "get", "send", "modify"}, r \in {"ok", "error"}}
ClassifierOutcomes ==
    {[Smooth EXCEPT !.load = l, !.infer = i] :
        l \in {"ok", "tokenizer_error", "model_error"}, i \in {"ok", "error"}}
Limits == {2, 5, 25}
ReplyIds == {"m1", "m2", "m3", "nope"}
TokenStates == {"valid", "absent", "expired", "invalid"}

Record(tool, input, r, o) ==
    /\ ncalls' = ncalls + 1
    /\ call' = Some([tool |-> tool, input |-> input, out |-> r.out,
                     raised |-> r.raised, before |-> Env, after |-> r.env,
                     outcome |-> o])
    /\ SetEnv(r.env)
    /\ UNCHANGED <<agent_vars, aux_vars>>

CallQueryDatabase ==
    /\ ncalls < MaxCalls
    /\ \E q \in FewQueries, o \in DbOutcomes :
          Record("query_database", q, query_database(q, Env, o), o)

CallMcpQueryDatabase ==
    /\ ncalls < MaxCalls
    /\ \E q \in FewQueries, o \in DbOutcomes :
          Record("mcp.query_database", q, mcp_query_database(q, Env, o), o)

CallListTables ==
    /\ ncalls < MaxCalls
    /\ \E o \in DbOutcomes :
          Record("list_tables_with_schemas", "", list_tables_with_schemas(Env, o), o)

CallFetchEmails ==
    /\ ncalls < MaxCalls
    /\ \E limit \in Limits, o \in MailOutcomes :
          Record("fetch_emails", ToString(limit), fetch_emails(limit, Env, o), o)

CallReplyToEmail ==
    /\ ncalls < MaxCalls
    /\ \E id \in ReplyIds, o \in MailOutcomes :
          Record("reply_to_email", id, reply_to_email(id, "Hello", Env, o), o)

CallClassifyEmailType ==
    /\ ncalls < MaxCalls
    /\ \E o \in ClassifierOutcomes :
          Record("classify_email_type", "Subject: Bug",
                 classify_email_type("Subject: Bug", Env, o), o)

Idle ==
    /\ pc = "idle"
    /\ iterations = 0
    /\ pending = <<>>
    /\ cur = NoCall
    /\ intermediate_steps = <<>>
    /\ tool_calls = <<>>
    /\ current_tool_start_time = None
    /\ now = 0
    /\ response = None
    /\ planned = 0
    /\ ended_by = ""
    /\ started = <<>>
    /\ deviations = 0
    /\ chat_history = <<>>
    /\ served = <<>>
    /\ runs = <<>>

ToolInit ==
    /\ Idle
    /\ db_tables = {"t"}
    /\ db_open = 0
    /\ db_opened = 0
    /\ db_executed = <<>>
    /\ token \in TokenStates
    /\ gmail_inbox = Messages
    /\ gmail_unread \in {{}, MessageIds}
    /\ gmail_sent = <<>>
    /\ gmail_calls = <<>>
    /\ classifier = NotLoaded
    /\ checkpoint = ShippedCheckpoint
    /\ call = None
    /\ ncalls = 0

ToolNext ==
    \/ CallQueryDatabase
    \/ CallMcpQueryDatabase
    \/ CallListTables
    \/ CallFetchEmails
    \/ CallReplyToEmail
    \/ CallClassifyEmailType

ToolSpec == ToolInit /\ [][ToolNext]_vars

(***************************************************************************)
(* query_database on one input out of many, on either transport.           *)
(***************************************************************************)
QueryOnce ==
    /\ call = None
    /\ \E q \in QueryInputs, o \in DbOutcomes :
          Record("query_database", q, query_database(q, Env, o), o)

McpQueryOnce ==
    /\ call = None
    /\ \E q \in QueryInputs, o \in DbOutcomes :
          Record("mcp.query_database", q, mcp_query_database(q, Env, o), o)

QueryInit ==
    /\ Idle
    /\ db_tables \in {{"t"}, {}}
    /\ db_open = 0
    /\ db_opened = 0
    /\ db_executed = <<>>
    /\ token = "valid"
    /\ gmail_inbox = Messages
    /\ gmail_unread = MessageIds
    /\ gmail_sent = <<>>
    /\ gmail_calls = <<>>
    /\ classifier = NotLoaded
    /\ checkpoint = ShippedCheckpoint
    /\ call = None
    /\ ncalls = 0

QueryNext == QueryOnce \/ McpQueryOnce

QuerySpec == QueryInit /\ [][QueryNext]_vars

(***************************************************************************)
(* fetch_emails called once, on either transport, on mailboxes from empty  *)
(* to more messages than the cap.                                          *)
(***************************************************************************)
FetchLimits == {1, 5, 20, 21, 25}
Mailboxes ==
    {[inbox |-> <<>>, unread |-> {}],
     [inbox |-> Messages, unread |-> {}],
     [inbox |-> Messages, unread |-> {"m2"}],
     [inbox |-> FullInbox, unread |-> {FullInbox[i] : i \in 1..Len(FullInbox)}],
     [inbox |-> FullInbox, unread |-> {FullInbox[i] : i \in 2..Len(FullInbox)}]}

FetchOnce ==
    /\ call = None
    /\ \E limit \in FetchLimits, o \in MailOutcomes :
          Record("fetch_emails", ToString(limit), fetch_emails(limit, Env, o), o)

McpFetchOnce ==
    /\ call = None
    /\ \E limit \in FetchLimits, o \in MailOutcomes :
          Record("mcp.fetch_emails", ToString(limit), mcp_fetch_emails(limit, Env, o), o)

InboxInit ==
    /\ Idle
    /\ db_tables = {"t"}
    /\ db_open = 0
    /\ db_opened = 0
    /\ db_executed = <<>>
    /\ token \in TokenStates
    /\ \E b \in Mailboxes : gmail_inbox = b.inbox /\ gmail_unread = b.unread
    /\ gmail_sent = <<>>
    /\ gmail_calls = <<>>
    /\ classifier = NotLoaded
    /\ checkpoint = ShippedCheckpoint
    /\ call = None
    /\ ncalls = 0

InboxNext == FetchOnce \/ McpFetchOnce

InboxSpec == InboxInit /\ [][InboxNext]_vars

(***************************************************************************)
(* The tool server: each of its tools called once.                         *)
(***************************************************************************)
mcp_tools ==
    {"mcp.query_database", "mcp.list_tables", "mcp.fetch_emails", "mcp.send_reply",
     "mcp.classify_email"}

McpCallQueryDatabase ==
    /\ call = None
    /\ \E q \in FewQueries, o \in DbOutcomes :
          Record("mcp.query_database", q, mcp_query_database(q, Env, o), o)

McpCallListTables ==
    /\ call = None
    /\ \E o \in DbOutcomes :
          Record("mcp.list_tables", "", mcp_list_tables(Env, o), o)

\* the host replies to message id: it passes the sender's address it read
McpCallSendReply ==
    /\ call = None
    /\ \E id \in InboxIds(Env) \cap ReplyIds, o \in MailOutcomes :
          Record("mcp.send_reply", id,
                 mcp_send_reply(ExtractAddress(FromOf(id)), "Re: Hi", "Hello", Env, o), o)

McpCallClassifyEmail ==
    /\ call = None
    /\ \E text \in Texts, o \in ClassifierOutcomes :
          Record("mcp.classify_email", text, mcp_classify_email(text, Env, o), o)

McpNext ==
    \/ McpCallQueryDatabase
    \/ McpCallListTables
    \/ McpFetchOnce
    \/ McpCallSendReply
    \/ McpCallClassifyEmail

McpSpec == InboxInit /\ [][McpNext]_vars

(***************************************************************************)
(* classify_email_type called directly, call after call, in one process.   *)
(* The calls do not overlap: chat awaits nothing while execute_agent runs, *)
(* and the executor runs its tools in the calling thread.                  *)
(***************************************************************************)
Classify ==
    /\ ncalls < MaxCalls
    /\ \E text \in Texts, o \in ClassifierOutcomes :
          \E r \in {classify_email_type(text, Env, o)} :
             /\ ncalls' = ncalls + 1
             /\ call' = Some([tool |-> "classify_email_type", input |-> text,
                              out |-> r.out, raised |-> r.raised, before |-> Env,
                              after |-> r.env, result |-> r.result,
                              outcome |-> o])
             /\ SetEnv(r.env)
             /\ UNCHANGED <<agent_vars, aux_vars>>

ClassifyInit ==
    /\ Idle
    /\ db_tables = {"t"}
    /\ db_open = 0
    /\ db_opened = 0
    /\ db_executed = <<>>
    /\ token = "valid"
    /\ gmail_inbox = Messages
    /\ gmail_unread = MessageIds
    /\ gmail_sent = <<>>
    /\ gmail_calls = <<>>
    /\ classifier = NotLoaded
    /\ checkpoint \in TrainedCheckpoints
    /\ call = None
    /\ ncalls = 0

ClassifySpec == ClassifyInit /\ [][Classify]_vars

\* The same with any checkpoint directory, a hand-edited one included.
AnyCheckpointInit ==
    /\ Idle
    /\ db_tables = {"t"}
    /\ db_open = 0
    /\ db_opened = 0
    /\ db_executed = <<>>
    /\ token = "valid"
    /\ gmail_inbox = Messages
    /\ gmail_unread = MessageIds
    /\ gmail_sent = <<>>
    /\ gmail_calls = <<>>
    /\ classifier = NotLoaded
    /\ checkpoint \in TrainedCheckpoints \cup EditedCheckpoints
    /\ call = None
    /\ ncalls = 0

AnyCheckpointSpec == AnyCheckpointInit /\ [][Classify]_vars

(***************************************************************************)
(* POST /chat, request after request.  A request body is [message,         *)
(* history]; history is None (null or left out) or a list of turns; a      *)
(* field of a turn is None when the body leaves it out.                    *)
(***************************************************************************)
Turn(role, content) == [role |-> Some(role), content |-> Some(content)]

\* class Message(BaseModel): role: str; content: str
Message_valid(m) == m.role # None /\ m.content # None

\* class ChatRequest(BaseModel): message: str; history: Optional[List[Message]] = []
ChatRequest_valid(body) ==
    /\ body.message # None
    /\ body.history # None =>
          \A i \in 1..Len(body.history[1]) : Message_valid(body.history[1][i])

\* [msg.dict() for msg in request.history] if request.history else []
history_dicts(body) ==
    IF body.history = None \/ body.history = Some(<<>>)
    THEN <<>>
    ELSE [i \in 1..Len(body.history[1]) |->
             [role |-> body.history[1][i].role[1], content |-> body.history[1][i].content[1]]]

HumanMessage(content) == [type |-> "human", content |-> content]
AIMessage(content) == [type |-> "ai", content |-> content]

\* chat_history = InMemoryChatMessageHistory(): a new, empty history
InMemoryChatMessageHistory_kept(previous) == previous
InMemoryChatMessageHistory(previous) == <<>>

\* one pass of "for msg in conversation_history"
add_message_any_role(messages, msg) ==
    IF msg.role = "assistant"
    THEN Append(messages, AIMessage(msg.content))
    ELSE Append(messages, HumanMessage(msg.content))
add_message(messages, msg) ==
    IF msg.role = "user"
    THEN Append(messages, HumanMessage(msg.content))
    ELSE IF msg.role = "assistant"
    THEN Append(messages, AIMessage(msg.content))
    ELSE messages

RECURSIVE add_messages(_, _)
add_messages(messages, conversation_history) ==
    IF conversation_history = <<>> THEN messages
    ELSE add_messages(add_message(messages, Head(conversation_history)),
                      Tail(conversation_history))

\* the prompt's chat_history and input slots as the executor fills them at
\* the first plan, after the system message
Conversation(messages, user_message) == Append(messages, HumanMessage(user_message))

Histories ==
    {None, Some(<<>>),
     Some(<<Turn("user", "q1")>>),
     Some(<<Turn("user", "q1"), Turn("assistant", "a1")>>),
     Some(<<Turn("assistant", "a1"), Turn("user", "q1")>>),
     Some(<<Turn("system", "note"), Turn("user", "q1"), Turn("assistant", "a1")>>),
     Some(<<Turn("user", "q1"), Turn("moderator", "note"), Turn("assistant", "a1")>>),
     Some(<<Turn("user", "q1"), Turn("tool", "note"), Turn("User", "q1")>>),
     Some(<<Turn("user", "q1"), [role |-> None, content |-> Some("a1")]>>)}
Bodies422 == {[message |-> None, history |-> None]}
RequestBodies ==
    {[message |-> Some(m), history |-> h] : m \in {"Hi", "And?"}, h \in Histories}
        \cup Bodies422

\* what the executor's run does after the conversation is built
AgentRuns == {"final", "tool_then_final", "model_error"}

\* FastAPI answers a body that fails validation with 422; chat is not called.
PostRejected ==
    /\ Len(served) < MaxRequests
    /\ \E body \in RequestBodies :
          /\ ~ChatRequest_valid(body)
          /\ response' = Some([status |-> 422, response |-> "Unprocessable Entity",
                               tool_calls |-> <<>>])
          /\ served' = Append(served, [request |-> body, at |-> now, status |-> 422,
                                       conversation |-> <<>>,
                                       tool_calls |-> <<>>])
    /\ UNCHANGED <<pc, iterations, pending, cur, intermediate_steps, tool_calls,
                   current_tool_start_time, now, planned, ended_by, started,
                   deviations, chat_history, runs>>
    /\ UNCHANGED <<env_vars, direct_vars>>

\* chat -> execute_agent: a new handler, a new chat history filled from the
\* request's history, the executor's run, the response.
PostChat ==
    /\ Len(served) < MaxRequests
    /\ \E body \in RequestBodies, run \in AgentRuns :
          /\ ChatRequest_valid(body)
          /\ LET messages == add_messages(InMemoryChatMessageHistory(chat_history),
                                          history_dicts(body))
                 begun == on_tool_start(NewHandler, PlainCall.tool, PlainCall.args, now)
                 r == RunTool(PlainCall, Env, Smooth)
                 ended == on_tool_end(begun, r.out, now + 1)
                 h == IF run = "tool_then_final" THEN ended ELSE NewHandler
                 steps == IF run = "tool_then_final" THEN <<<<PlainCall.tool, r.out>>>> ELSE <<>>
                 answer == IF run = "model_error"
                           THEN chat(execute_agent_failure("APIConnectionError", h))
                           ELSE chat(execute_agent_result(Some("Here is the answer."), h))
             IN  /\ chat_history' = messages
                 /\ SetHandler(h)
                 /\ intermediate_steps' = steps
                 /\ IF run = "tool_then_final"
                    THEN SetEnv(r.env) /\ now' = now + 2
                    ELSE UNCHANGED <<env_vars, now>>
                 /\ response' = Some(answer)
                 /\ served' = Append(served,
                        [request |-> body, at |-> now, status |-> answer.status,
                         conversation |-> Conversation(messages, body.message[1]),
                         tool_calls |-> answer.tool_calls])
    /\ UNCHANGED <<pc, iterations, pending, cur, planned, ended_by, started,
                   deviations, runs, direct_vars>>

ChatInit ==
    /\ Idle
    /\ db_tables = {"t"}
    /\ db_open = 0
    /\ db_opened = 0
    /\ db_executed = <<>>
    /\ token = "valid"
    /\ gmail_inbox = Messages
    /\ gmail_unread = MessageIds
    /\ gmail_sent = <<>>
    /\ gmail_calls = <<>>
    /\ classifier = NotLoaded
    /\ checkpoint = ShippedCheckpoint
    /\ call = None
    /\ ncalls = 0

ChatNext == PostRejected \/ PostChat

ChatSpec == ChatInit /\ [][ChatNext]_vars

(***************************************************************************)
(* One ToolCallbackHandler and the callbacks of up to MaxRuns tool runs,   *)
(* delivered in any order that starts a run before it completes.  runs     *)
(* keeps, for each run, what the handler itself does not: which record its *)
(* start made, when it started, and how it completed.                      *)
(***************************************************************************)
RunNames == {"query_database", "fetch_emails"}
OutputOf(k) == "output of run " \o ToString(k)
ErrorOf(k) == "error of run " \o ToString(k)
Running == {k \in 1..Len(runs) : runs[k].state = "running"}

\* tool.run begins: the callback manager, which holds the handler once
\* though it was given on the executor and in the config, fires on_tool_start
DeliverStart ==
    /\ Len(runs) < MaxRuns
    /\ \E name \in RunNames :
          /\ SetHandler(on_tool_start(Handler, name, <<>>, now))
          /\ runs' = Append(runs, [tool_name |-> name, record |-> Len(tool_calls) + 1,
                                   started |-> now, state |-> "running",
                                   ended |-> None, alone |-> Running = {}])
    /\ now' = now + 1
    /\ UNCHANGED <<pc, iterations, pending, cur, intermediate_steps, response,
                   planned, ended_by, started, deviations, chat_history, served>>
    /\ UNCHANGED <<env_vars, direct_vars>>

\* a running tool returns: on_tool_end
DeliverEnd ==
    /\ \E k \in Running :
          /\ SetHandler(on_tool_end(Handler, OutputOf(k), now))
          /\ runs' = [runs EXCEPT ![k].state = "ended", ![k].ended = Some(now)]
    /\ now' = now + 1
    /\ UNCHANGED <<pc, iterations, pending, cur, intermediate_steps, response,
                   planned, ended_by, started, deviations, chat_history, served>>
    /\ UNCHANGED <<env_vars, direct_vars>>

\* a running tool raises: on_tool_error
DeliverError ==
    /\ \E k \in Running :
          /\ SetHandler(on_tool_error(Handler, ErrorOf(k)))
          /\ runs' = [runs EXCEPT ![k].state = "failed", ![k].ended = Some(now)]
    /\ now' = now + 1
    /\ UNCHANGED <<pc, iterations, pending, cur, intermediate_steps, response,
                   planned, ended_by, started, deviations, chat_history, served>>
    /\ UNCHANGED <<env_vars, direct_vars>>

HandlerInit == ChatInit

HandlerNext == DeliverStart \/ DeliverEnd \/ DeliverError

HandlerSpec == HandlerInit /\ [][HandlerNext]_vars

(***************************************************************************)
(* The claims.                                                             *)
(***************************************************************************)
IsQueryCall == call # None /\ call[1].tool \in {"query_database", "mcp.query_database"}
RejectionOf(tool) ==
    IF tool = "query_database" THEN SafetyRejection
    ELSE "[{error: Only SELECT queries are allowed for safety.}]"

\* C1: query_database, on either transport, answers every input whose
\* trimmed, upper-cased text does not start with SELECT with the safety
\* rejection as its return value, opens no connection, executes no
\* statement and leaves the database as it was.
C1_NonSelectRejected ==
    (IsQueryCall /\ ~StartsWith(Upper(Strip(call[1].input)), "SELECT"))
        => /\ call[1].out = RejectionOf(call[1].tool)
           /\ ~call[1].raised
           /\ call[1].after.db_opened = call[1].before.db_opened
           /\ call[1].after.db_executed = call[1].before.db_executed
           /\ call[1].after.db_tables = call[1].before.db_tables
           /\ call[1].after = call[1].before

C1_Witness ==
    /\ IsQueryCall
    /\ call[1].input = " DROP TABLE t"
    /\ call[1].out = SafetyRejection
    /\ db_tables = {"t"}
    /\ db_opened = 0

\* C2, as stated: every run ends within max_iterations rounds with a
\* non-empty response text, whatever the remote model does.
C2_AlwaysNonEmpty ==
    /\ iterations <= max_iterations
    /\ (response # None /\ response[1].status = 200) => response[1].response # ""

\* What is left of the run: it falls with every step and is 0 at the end.
Measure ==
    IF pc = "responded" THEN 0
    ELSE IF pc = "idle" THEN (max_iterations + 2) * (2 * MaxBatch + 2)
    ELSE 1 + (max_iterations - iterations) * (2 * MaxBatch + 2)
           + (CASE pc = "plan" -> 2 * MaxBatch + 1
                [] pc = "act" -> 2 * Len(pending)
                [] OTHER -> 2 * Len(pending) - 1)

\* C2, amended: the run ends within max_iterations rounds: every step
\* brings it nearer to its end, and until the response is sent a step is
\* possible (in a running tool call: the arguments are rejected or the tool
\* runs).  A run cut off at the cap answers with the executor's stop
\* message and a failed run with the error message, both non-empty; a final
\* answer is the remote model's own text, empty when the model's text is
\* empty.
C2_BoundedRounds ==
    /\ [](pc \in {"idle", "plan", "act"}
            => ENABLED (Chat \/ Stop \/ PlanFinal \/ ToolStart))
    /\ [](pc = "running" => (ValidArgs(cur) \/ ENABLED ToolRejectsArgs))
    /\ [][ /\ Measure' < Measure
           /\ Measure' >= 0
           /\ iterations' <= max_iterations
           /\ ended_by' \in {"stop", "model_error", "validation_error", "tool_error"}
               => response'[1].response # ""
           /\ ended_by' = "stop"
               => iterations' = max_iterations /\ response'[1].response = StoppedMessage
           /\ ended_by' = "final" => response'[1].response \in FinalTexts ]_vars

C2_Witness ==
    /\ pc = "responded"
    /\ ended_by = "stop"
    /\ iterations = max_iterations
    /\ Len(intermediate_steps) >= max_iterations
    /\ response[1].response # ""

Registered(name) == name \in tools \cup {"_Exception"}

\* C3: a tool name that is not registered is answered by the stand-in's
\* "not a valid tool" observation, which joins the scratchpad; the run goes
\* on with the next call or round, and nothing of the environment changes.
C3_UnknownToolObserved ==
    [][ /\ (pc = "act" /\ ~Registered(Head(pending).tool))
            => /\ pc' = "running"
               /\ cur'.tool \notin tools
               /\ response' = None
               /\ Env' = Env
        /\ (pc = "running" /\ ~Registered(Head(pending).tool))
            => /\ pc' \in {"act", "plan"}
               /\ response' = None
               /\ Last(intermediate_steps')
                    = <<"invalid_tool", InvalidToolMessage(Head(pending).tool)>>
               /\ Len(intermediate_steps') = Len(intermediate_steps) + 1
               /\ Env' = Env ]_vars

C3_Witness ==
    /\ pc = "plan"
    /\ iterations >= 1
    /\ response = None
    /\ intermediate_steps # <<>>
    /\ Last(intermediate_steps) = <<"invalid_tool", InvalidToolMessage("send_email")>>
    /\ db_opened = 0

\* C4: arguments that miss a required field become an observation and the
\* loop goes on.
C4_InvalidArgsObserved ==
    [][(pc = "running" /\ ~ValidArgs(cur))
          => /\ response' = None
             /\ pc' \in {"act", "plan"}
             /\ Len(intermediate_steps') = Len(intermediate_steps) + 1]_vars

\* The run of C4's case: reply_to_email without body ends the request with
\* the error text; nothing joined the scratchpad.
C4_Witness ==
    /\ pc = "responded"
    /\ ended_by = "validation_error"
    /\ cur.tool = "reply_to_email"
    /\ intermediate_steps = <<>>
    /\ response[1].response = ErrorPrefix \o "ValidationError"

TraceNames(t) == [i \in 1..Len(t) |-> t[i].tool_name]

\* C5: whenever execute_agent returns, by a final answer or by a failure,
\* the trace it returns holds one record per tool call started, in the
\* order of the starts.
C5_TraceReturned ==
    (response # None /\ response[1].status = 200)
        => TraceNames(response[1].tool_calls) = started

\* The run of C5's case: a tool call was started and completed, then the
\* run failed, and the trace returned is empty.
C5_Witness ==
    /\ pc = "responded"
    /\ ended_by = "model_error"
    /\ started = <<"query_database">>
    /\ Len(tool_calls) = 1
    /\ response[1].tool_calls = <<>>

Fresh(r) == r.output = None /\ r.error = None /\ r.duration_ms = None
Ended(r) == r.output # None /\ r.error = None /\ r.duration_ms # None
Failed(r) == r.output = None /\ r.error # None /\ r.duration_ms # None

\* C6: every record is as on_tool_start made it, or completed once by
\* on_tool_end (output and duration_ms) or by on_tool_error (error and
\* duration_ms).
C6_RecordLifecycle ==
    \A i \in 1..Len(tool_calls) :
        Fresh(tool_calls[i]) \/ Ended(tool_calls[i]) \/ Failed(tool_calls[i])

\* The record of C6's case: completed by on_tool_error, without duration.
C6_Witness ==
    /\ tool_calls # <<>>
    /\ Last(tool_calls).error # None
    /\ Last(tool_calls).duration_ms = None
    /\ Last(tool_calls).output = None

RoundsBegun == iterations + (IF pending # <<>> THEN 1 ELSE 0)

\* C7, as stated: at most one tool per round, so no more tool executions
\* and trace records than rounds.
C7_OneToolPerRound ==
    /\ Len(started) <= RoundsBegun
    /\ Len(tool_calls) <= RoundsBegun
    /\ RoundsBegun <= max_iterations

\* C7, amended: a round performs the actions the agent planned in it, one
\* after another, one or several; there are never more tool executions or
\* trace records than actions planned, and at most max_iterations rounds.
C7_AsManyAsPlanned ==
    /\ Len(started) <= planned
    /\ Len(tool_calls) = Len(started)
    /\ RoundsBegun <= max_iterations
    /\ Len(pending) <= MaxBatch

C7_Witness ==
    /\ iterations = 1
    /\ pc = "plan"
    /\ Len(tool_calls) = 2
    /\ planned = 2

Incomplete(r) == r.output = None /\ r.error = None

\* C8: at most one trace record is incomplete, and it is the last one; a
\* record is incomplete exactly while its tool runs.
C8_Sequential ==
    /\ \A i \in 1..Len(tool_calls) : Incomplete(tool_calls[i]) => i = Len(tool_calls)
    /\ (tool_calls # <<>> /\ Incomplete(Last(tool_calls))) => pc = "running"
    /\ pc = "running" => (tool_calls # <<>> /\ Incomplete(Last(tool_calls)))

C8_Witness ==
    /\ pc = "running"
    /\ Len(tool_calls) = 2
    /\ iterations = 0
    /\ ~Incomplete(tool_calls[1])
    /\ Incomplete(tool_calls[2])

\* C9: no tool raises; whatever its collaborator does, the tool returns,
\* and what it returns is never empty.
C9_ToolsNeverRaise ==
    call # None => (~call[1].raised /\ call[1].out # "")

C9_Witness ==
    /\ call # None
    /\ ncalls = 2
    /\ call[1].tool = "reply_to_email"
    /\ call[1].out = "Failed to reply to email: HttpError modify"
    /\ call[1].after.gmail_sent # call[1].before.gmail_sent

\* C10, as stated: a failed call of the remote model ends the request with
\* the chat handler's HTTP error.
C10_ModelFailureIs500 ==
    ended_by = "model_error" => response[1].status = 500

\* C10, amended: a failed call of the remote model is caught in
\* execute_agent; chat answers 200 with the text "I encountered an error:
\* ..." and an empty tool list.  The HTTP error is the answer only to a
\* failure that leaves execute_agent, raised before its try block.
C10_ModelFailureIs200 ==
    /\ ended_by = "model_error"
        => /\ response[1].status = 200
           /\ response[1].response = ErrorPrefix \o "APIConnectionError"
           /\ response[1].tool_calls = <<>>
    /\ (response # None /\ response[1].status = 500) => ended_by = "setup_error"

C10_Witness ==
    /\ ended_by = "model_error"
    /\ iterations = 1
    /\ response[1].status = 200

Times(seq, S) == Cardinality({i \in 1..Len(seq) : seq[i] \in S})
ApiCalls(name) == Cardinality({i \in 1..Len(gmail_calls) : gmail_calls[i][1] = name})
CatalogQueries == {TablesQuery, ColumnsQuery}
QueriesExecuted == Cardinality({i \in 1..Len(db_executed) : db_executed[i] \notin CatalogQueries})

\* C11: no retry.  In a run there are never more query statements executed
\* than query_database calls started, never more connections opened than
\* database tool calls started, never more sends or mark-reads than
\* reply_to_email calls started, and never more observations than tool calls
\* started: an operation that failed is reported and not attempted again.
C11_NoRetry ==
    /\ QueriesExecuted <= Times(started, {"query_database"})
    /\ db_opened <= Times(started, {"query_database", "list_tables_with_schemas"})
    /\ ApiCalls("send") <= Times(started, {"reply_to_email"})
    /\ ApiCalls("modify") <= Times(started, {"reply_to_email"})
    /\ Len(gmail_sent) <= Times(started, {"reply_to_email"})
    /\ Len(intermediate_steps) <= Len(started)
    /\ Len(started) <= planned

C11_Witness ==
    /\ pc = "plan"
    /\ iterations = 1
    /\ started = <<"query_database">>
    /\ intermediate_steps = <<<<"query_database", "Error executing query: syntax error">>>>
    /\ db_executed = <<"SELECT 1">>
    /\ db_opened = 1

\* C12: no caching across rounds.  Every query_database call that passes
\* the gate reaches the database anew: it opens a connection and executes
\* its statement, and the observation is what the database answered this
\* time, or it reports that the connection was refused.
C12_NoCaching ==
    [][(pc = "running" /\ cur.tool = "query_database" /\ ValidArgs(cur)
          /\ is_select(ArgOf(cur.args, "query")))
        => \/ /\ Last(intermediate_steps')[2] = "Error executing query: connection refused"
              /\ db_executed' = db_executed
              /\ db_opened' = db_opened
           \/ /\ db_opened' = db_opened + 1
              /\ db_executed' = Append(db_executed, ArgOf(cur.args, "query"))
              /\ Last(intermediate_steps')[2]
                    \in {FormatRows(Smooth.rows), "Error executing query: syntax error"}]_vars

C12_Witness ==
    /\ iterations = 3
    /\ db_executed = <<"SELECT 1", "SELECT 1", "SELECT 1">>
    /\ db_opened = 3
    /\ intermediate_steps[1][2] = FormatRows(Smooth.rows)
    /\ intermediate_steps[2][2] = "Error executing query: syntax error"
    /\ intermediate_steps[3][2] = FormatRows(Smooth.rows)

IsClassification == call # None /\ call[1].tool = "classify_email_type"
Succeeded(c) == "error" \notin DOMAIN c.result
WasCached(c) == c.before.classifier.tokenizer /\ c.before.classifier.model

\* C13, as stated: whatever the calls and their load failures, the
\* tokenizer is loaded once and the model is loaded once.
C13_EachLoadedOnce ==
    /\ classifier.tokenizer_loads <= 1
    /\ classifier.model_loads <= 1

\* C13, amended: the model is loaded at most once, and once tokenizer and
\* model are both cached no call loads anything or changes the pair.  The
\* tokenizer is loaded again only by a call that finds the model missing,
\* that is after a model load that failed.
C13_LoadedOnceWhenCached ==
    /\ [](/\ classifier.model_loads <= 1
          /\ classifier.model => (classifier.tokenizer /\ classifier.model_loads = 1)
          /\ classifier.tokenizer => classifier.tokenizer_loads >= 1)
    /\ [][/\ (classifier.tokenizer /\ classifier.model) => classifier' = classifier
          /\ classifier'.tokenizer_loads > classifier.tokenizer_loads
                => (~classifier.model /\ classifier'.tokenizer_loads = classifier.tokenizer_loads + 1)
          /\ classifier.tokenizer => classifier'.tokenizer
          /\ classifier.model => classifier'.model]_vars

C13_Witness ==
    /\ IsClassification
    /\ ncalls = 2
    /\ WasCached(call[1])
    /\ Succeeded(call[1])
    /\ classifier.tokenizer_loads = 1
    /\ classifier.model_loads = 1

Scores(c) == Softmax(SubSeq(Logits(c.before.checkpoint, c.input), 1,
                            c.before.checkpoint.num_labels))
LoadFails(c) == ~WasCached(c) /\ c.outcome.load # "ok"
InferenceFails(c) == c.outcome.infer = "error"
LabelMissing(c) ==
    \E i \in 1..Len(Scores(c)) :
        /\ \A j \in 1..Len(Scores(c)) : Scores(c)[j] <= Scores(c)[i]
        /\ \A j \in 1..(i - 1) : Scores(c)[j] < Scores(c)[i]
        /\ (i - 1) \notin DOMAIN c.before.checkpoint.id2label

\* C14: classify_email_type never raises; when the load fails, the
\* inference fails or the predicted id has no label, it returns the
\* structured result with an error text, label "unknown" and confidence 0.
C14_FailureIsUnknown ==
    IsClassification
        => /\ ~call[1].raised
           /\ call[1].result.label # ""
           /\ (LoadFails(call[1]) \/ InferenceFails(call[1]) \/ LabelMissing(call[1]))
                => /\ ~Succeeded(call[1])
                   /\ call[1].result.label = "unknown"
                   /\ call[1].result.confidence = 0
                   /\ call[1].out = ClassificationFailed(
                          SubSeq(call[1].result.error, Len("Classification failed: ") + 1,
                                 Len(call[1].result.error)))

C14_Witness ==
    /\ IsClassification
    /\ LabelMissing(call[1])
    /\ ~LoadFails(call[1])
    /\ ~InferenceFails(call[1])
    /\ call[1].result.label = "unknown"
    /\ call[1].result.error
          = "Classification failed: Label mapping not found for predicted ID: 1"

\* C15: on success the label is the id-to-label entry of an index whose
\* score is the greatest, the confidence is that score, and in all_scores
\* the label holds the confidence and no key holds more.
C15_LabelOfGreatestScore ==
    (IsClassification /\ Succeeded(call[1]))
        => LET r == call[1].result
               probs == Scores(call[1])
               id2label == call[1].before.checkpoint.id2label
           IN  /\ \E i \in 1..Len(probs) :
                     /\ \A j \in 1..Len(probs) : probs[j] <= probs[i]
                     /\ r.label = id2label[i - 1]
                     /\ r.confidence = probs[i]
               /\ r.label \in DOMAIN r.all_scores
               /\ r.all_scores[r.label] = r.confidence
               /\ \A l \in DOMAIN r.all_scores : r.all_scores[l] <= r.confidence

C15_Witness ==
    /\ IsClassification
    /\ Succeeded(call[1])
    /\ call[1].input = "Subject: Bug"
    /\ call[1].result.label = "issue"
    /\ call[1].result.confidence = 80
    /\ call[1].result.all_scores["inquiry"] = 10

RECURSIVE SumOver(_, _)
SumOver(f, S) ==
    IF S = {} THEN 0
    ELSE LET x == CHOOSE x \in S : TRUE IN f[x] + SumOver(f, S \ {x})

IsReply == call # None /\ call[1].tool = "reply_to_email"
NewApiCalls(c) ==
    SubSeq(c.after.gmail_calls, Len(c.before.gmail_calls) + 1, Len(c.after.gmail_calls))
ReplyFailed(c) == StartsWith(c.out, "Failed to reply to email: ")
ReplySucceeded(c) == StartsWith(c.out, "Reply sent successfully to ")
SenderOf(id) ==
    CASE id = "m1" -> "ann@x.org"
      [] id = "m2" -> "bob@y.org"
      [] id = "m3" -> "cy@z.org"

\* C18: reply_to_email with a message id the mailbox does not hold returns
\* the failure text; nothing is sent, no UNREAD label changes and neither
\* send nor modify is called.
C18_UnknownIdNoEffect ==
    (IsReply /\ call[1].input \notin MessageIds)
        => /\ ~call[1].raised
           /\ ReplyFailed(call[1])
           /\ call[1].after.gmail_sent = call[1].before.gmail_sent
           /\ call[1].after.gmail_unread = call[1].before.gmail_unread
           /\ \A i \in 1..Len(NewApiCalls(call[1])) :
                 NewApiCalls(call[1])[i][1] \notin {"send", "modify"}

C18_Witness ==
    /\ IsReply
    /\ call[1].input = "nope"
    /\ call[1].out = "Failed to reply to email: HttpError 404"
    /\ NewApiCalls(call[1]) = <<<<"get", "nope">>>>
    /\ gmail_sent = <<>>

\* C19: a reply_to_email call that returns the success text has fetched the
\* original, then sent one message in the original's thread to the
\* sender's address, then removed the original's UNREAD label, in this
\* order and each once; afterwards the original is not unread.
C19_SuccessMeansSentAndRead ==
    (IsReply /\ ReplySucceeded(call[1]))
        => LET id == call[1].input IN
           /\ id \in MessageIds
           /\ NewApiCalls(call[1]) = <<<<"get", id>>, <<"send", id>>, <<"modify", id>>>>
           /\ call[1].after.gmail_sent
                 = Append(call[1].before.gmail_sent, <<ThreadOf(id), SenderOf(id)>>)
           /\ call[1].after.gmail_unread = call[1].before.gmail_unread \ {id}
           /\ StartsWith(call[1].out, "Reply sent successfully to " \o SenderOf(id) \o "!")

C19_Witness ==
    /\ IsReply
    /\ call[1].input = "m3"
    /\ "m3" \in call[1].before.gmail_unread
    /\ ReplySucceeded(call[1])
    /\ gmail_sent = <<<<"thread-m3", "cy@z.org">>>>
    /\ "m3" \notin gmail_unread

\* C20: when the send succeeded and the mark-read that follows fails, the
\* call returns the failure text, the reply stays sent, the UNREAD labels
\* are as before, and get, send and modify were each called once.
C20_SentButUnread ==
    (IsReply /\ ReplyFailed(call[1]) /\ NewApiCalls(call[1]) # <<>>
       /\ Last(NewApiCalls(call[1]))[1] = "modify")
        => LET id == call[1].input IN
           /\ NewApiCalls(call[1]) = <<<<"get", id>>, <<"send", id>>, <<"modify", id>>>>
           /\ call[1].after.gmail_sent
                 = Append(call[1].before.gmail_sent, <<ThreadOf(id), SenderOf(id)>>)
           /\ call[1].after.gmail_unread = call[1].before.gmail_unread
           /\ ~call[1].raised

C20_Witness ==
    /\ IsReply
    /\ call[1].input = "m1"
    /\ call[1].out = "Failed to reply to email: HttpError modify"
    /\ "m1" \in gmail_unread
    /\ gmail_sent = <<<<"thread-m1", "ann@x.org">>>>
    /\ ncalls = 1

IsFetch == call # None /\ call[1].tool \in {"fetch_emails", "mcp.fetch_emails"}
FetchFailed(c) ==
    StartsWith(c.out, "Error fetching emails: ") \/ StartsWith(c.out, "[{error}]: ")
NoUnreadMessage == "No unread emails found in inbox."

\* C21: a fetch_emails call, on either transport, that reaches the mail API
\* without an error when no message is unread returns the text
\* 'No unread emails found in inbox.'.
C21_ExplicitNoUnread ==
    (IsFetch /\ call[1].before.gmail_unread = {} /\ ~FetchFailed(call[1]))
        => call[1].out = NoUnreadMessage

\* C21, the agent's tool alone: with no message unread (an empty mailbox or
\* one whose messages are all read) it returns the text.
C21_AgentToolExplicit ==
    (IsFetch /\ call[1].tool = "fetch_emails" /\ call[1].before.gmail_unread = {}
       /\ ~FetchFailed(call[1]))
        => call[1].out = NoUnreadMessage

C21_Witness ==
    /\ IsFetch
    /\ call[1].tool = "mcp.fetch_emails"
    /\ call[1].before.gmail_inbox = <<>>
    /\ call[1].before.gmail_unread = {}
    /\ call[1].out = "[]"

ListRequests(c) ==
    {NewApiCalls(c)[i][2] : i \in {j \in 1..Len(NewApiCalls(c)) : NewApiCalls(c)[j][1] = "list"}}
Fetched(c) ==
    Cardinality({i \in 1..Len(NewApiCalls(c)) : NewApiCalls(c)[i][1] = "get"})
UpToTwenty(c) ==
    /\ ListRequests(c) \subseteq
          {"maxResults=" \o ToString(n) \o q : n \in 0..20, q \in {"", " q=is:unread"}}
    /\ Fetched(c) <= 20
    /\ ~FetchFailed(c) =>
          c.out \in {NoUnreadMessage, "[]"}
                \cup {"Found " \o ToString(n) \o " unread emails" : n \in 1..20}
                \cup {"[" \o ToString(n) \o " emails]" : n \in 1..20}

\* C22: a fetch_emails call, on either transport and for every limit, asks
\* the mail API for at most 20 messages, fetches at most 20 and lists at
\* most 20 in its result.
C22_AtMostTwenty == IsFetch => UpToTwenty(call[1])

\* C22, the agent's tool alone.
C22_AgentToolCapped == (IsFetch /\ call[1].tool = "fetch_emails") => UpToTwenty(call[1])

C22_Witness ==
    /\ IsFetch
    /\ call[1].tool = "mcp.fetch_emails"
    /\ call[1].input = "25"
    /\ Len(call[1].before.gmail_inbox) > 20
    /\ ListRequests(call[1]) = {"maxResults=25"}
    /\ Fetched(call[1]) = Len(call[1].before.gmail_inbox)
    /\ call[1].out = EmailList(Len(call[1].before.gmail_inbox))

IsMailCall == call # None /\ call[1].tool \in {"fetch_emails", "reply_to_email"}
FailurePrefix(tool) ==
    IF tool = "fetch_emails" THEN "Error fetching emails: " ELSE "Failed to reply to email: "
\* the token file is absent, or holds a token that is invalid and has no
\* refresh path, or holds an expired token whose refresh is refused
Unusable(c) ==
    \/ c.before.token \in {"absent", "invalid"}
    \/ c.before.token = "expired" /\ c.outcome.refresh = "error"
Refreshable(c) == c.before.token = "expired" /\ c.outcome.refresh = "ok"

\* C23: fetch_emails and reply_to_email called with a token that is absent
\* or invalid and cannot be refreshed return the authentication-required
\* text and make no mail API call; with an expired token that can be
\* refreshed, the token is refreshed and written back and the call goes on
\* to the mail API.
C23_AuthRequiredOrRefreshed ==
    IsMailCall =>
        /\ Unusable(call[1]) =>
              /\ call[1].out = FailurePrefix(call[1].tool)
                    \o "Gmail authentication required. Please run 'python setup_gmail_auth.py' to generate token.json."
              /\ NewApiCalls(call[1]) = <<>>
        /\ Refreshable(call[1]) =>
              /\ call[1].after.token = "valid"
              /\ NewApiCalls(call[1]) # <<>>

\* C23, what holds for every unusable token: the call fails with its failure
\* text, makes no mail API call and leaves the token file as it was.
C23_NoMailCallWithoutCredential ==
    IsMailCall =>
        /\ Unusable(call[1]) =>
              /\ StartsWith(call[1].out, FailurePrefix(call[1].tool))
              /\ NewApiCalls(call[1]) = <<>>
              /\ call[1].after.token = call[1].before.token
        /\ Refreshable(call[1]) =>
              /\ call[1].after.token = "valid"
              /\ NewApiCalls(call[1]) # <<>>

C23_Witness ==
    /\ IsMailCall
    /\ call[1].tool = "fetch_emails"
    /\ call[1].before.token = "expired"
    /\ call[1].outcome.refresh = "error"
    /\ call[1].out = "Error fetching emails: RefreshError"
    /\ NewApiCalls(call[1]) = <<>>

IsDbCall ==
    call # None /\ call[1].tool \in {"query_database", "list_tables_with_schemas"}
Ran(c) == Len(c.after.db_executed) > Len(c.before.db_executed)

\* C26: no database connection is open between tool calls; a call of
\* query_database or list_tables_with_schemas, whether it returned rows or
\* an error text, opened at most one connection, opened its own when it
\* ran a statement, and left none open.
C26_ConnectionPerCall ==
    /\ db_open = 0
    /\ IsDbCall =>
          /\ call[1].before.db_open = 0
          /\ call[1].after.db_open = 0
          /\ call[1].after.db_opened - call[1].before.db_opened \in {0, 1}
          /\ Ran(call[1]) => call[1].after.db_opened = call[1].before.db_opened + 1
          /\ (call[1].outcome.db = "connect_error" \/ call[1].out = SafetyRejection)
                => call[1].after.db_opened = call[1].before.db_opened

C26_Witness ==
    /\ IsDbCall
    /\ call[1].tool = "list_tables_with_schemas"
    /\ call[1].outcome.db = "execute_error"
    /\ StartsWith(call[1].out, "Error listing tables with schemas: ")
    /\ call[1].before.db_opened = 1
    /\ db_opened = 2
    /\ db_open = 0

\* after leading blanks, tabs and newlines come the six letters s-e-l-e-c-t
\* in either case
BeginsWithSelect(q) ==
    \E k \in 0..Len(q) :
        /\ \A i \in 1..k : CharAt(q, i) \in {" ", "\t", "\n"}
        /\ Len(q) >= k + 6
        /\ \A j \in 1..6 : CharAt(q, k + j) \in {CharAt("SELECT", j), CharAt("select", j)}

IsMcpCall == call # None /\ call[1].tool \in mcp_tools
\* the agent's tool of the same kind, on the same input, environment and
\* collaborator behaviour
AgentCounterpart(c) ==
    CASE c.tool = "mcp.query_database" -> query_database(c.input, c.before, c.outcome)
      [] c.tool = "mcp.list_tables" -> list_tables_with_schemas(c.before, c.outcome)
      [] c.tool = "mcp.fetch_emails" ->
            fetch_emails(CHOOSE l \in FetchLimits : ToString(l) = c.input, c.before, c.outcome)
      [] c.tool = "mcp.send_reply" -> reply_to_email(c.input, "Hello", c.before, c.outcome)
      [] c.tool = "mcp.classify_email" -> classify_email_type(c.input, c.before, c.outcome)

\* C27: a tool of the tool server, called on an input, leaves the database,
\* the mailbox, the token file and the classifier as the agent's tool of
\* the same kind does on that input: the same statements executed, the
\* same mail API requests, the same message sent in the same thread, the
\* same labels removed, the same model loaded.
C27_SameContract ==
    IsMcpCall => call[1].after = AgentCounterpart(call[1]).env

\* C27, the part that holds: query_database refuses and executes the same
\* texts on both transports.
C27_SameSelectGate ==
    (IsMcpCall /\ call[1].tool = "mcp.query_database")
        => /\ call[1].after = AgentCounterpart(call[1]).env
           /\ (call[1].out = "[{error: Only SELECT queries are allowed for safety.}]")
                 <=> (AgentCounterpart(call[1]).out = SafetyRejection)

C27_Witness ==
    /\ IsMcpCall
    /\ call[1].tool = "mcp.classify_email"
    /\ call[1].input = "Subject: Bug"
    /\ call[1].outcome = Smooth
    /\ call[1].out = "Classification: General Inquiry (Placeholder)"
    /\ classifier = NotLoaded
    /\ AgentCounterpart(call[1]).env.classifier # NotLoaded

Answered == {k \in 1..Len(served) : served[k].status = 200}
TurnsOf(body) == IF body.history = None THEN <<>> ELSE body.history[1]
OwnContents(body) ==
    {body.message[1]} \cup {TurnsOf(body)[i].content[1] : i \in 1..Len(TurnsOf(body))}

\* C24: for every request answered, whatever was answered before it, each
\* message of the conversation handed to the model carries a content of
\* the request's own history or message, the conversation is no longer
\* than that history plus one, and every record of the returned trace was
\* started after the request arrived.
C24_NothingCarriedOver ==
    \A k \in Answered :
        /\ \A n \in 1..Len(served[k].conversation) :
              served[k].conversation[n].content \in OwnContents(served[k].request)
        /\ Len(served[k].conversation) <= Len(TurnsOf(served[k].request)) + 1
        /\ \A i \in 1..Len(served[k].tool_calls) :
              served[k].tool_calls[i].timestamp >= served[k].at
        /\ Len(served[k].tool_calls) <= 1

C24_Witness ==
    /\ Len(served) = 2
    /\ served[1].request =
          [message |-> Some("Hi"),
           history |-> Some(<<Turn("user", "q1"), Turn("assistant", "a1")>>)]
    /\ Len(served[1].tool_calls) = 1
    /\ served[2].request = [message |-> Some("And?"), history |-> None]
    /\ served[2].status = 200
    /\ served[2].conversation = <<[type |-> "human", content |-> "And?"]>>
    /\ served[2].tool_calls = <<>>
    /\ chat_history = <<>>

KnownRoles == {"user", "assistant", "tool"}
HasUnknownRole(body) ==
    \E i \in 1..Len(TurnsOf(body)) :
        TurnsOf(body)[i].role # None /\ TurnsOf(body)[i].role[1] \notin KnownRoles

\* C25: a request whose history holds a turn with a role outside user,
\* assistant and tool is rejected, not answered.
C25_UnknownRoleRejected ==
    \A k \in 1..Len(served) :
        HasUnknownRole(served[k].request) => served[k].status # 200

C25_Witness ==
    /\ Len(served) = 1
    /\ served[1].request =
          [message |-> Some("Hi"),
           history |-> Some(<<Turn("user", "q1"), Turn("moderator", "note"),
                              Turn("assistant", "a1")>>)]
    /\ served[1].status = 200
    /\ served[1].conversation =
          <<[type |-> "human", content |-> "q1"], [type |-> "ai", content |-> "a1"],
            [type |-> "human", content |-> "Hi"]>>

KeptIndices(h) == {i \in 1..Len(h) : h[i].role \in {<<"user">>, <<"assistant">>}}
NthKept(h, n) ==
    CHOOSE i \in KeptIndices(h) : Cardinality({j \in KeptIndices(h) : j < i}) = n - 1
WellFormed(body) ==
    /\ body.message # <<>>
    /\ \A i \in 1..Len(TurnsOf(body)) :
          TurnsOf(body)[i].role # <<>> /\ TurnsOf(body)[i].content # <<>>

RecordOf(k) == tool_calls[runs[k].record]
\* the run's completion is in the record its own start created
OwnRecordFilled(k) ==
    /\ RecordOf(k).tool_name = runs[k].tool_name
    /\ RecordOf(k).timestamp = runs[k].started
    /\ runs[k].state = "running" =>
          RecordOf(k).output = None /\ RecordOf(k).error = None
    /\ runs[k].state = "ended" =>
          /\ RecordOf(k).output = Some(OutputOf(k))
          /\ RecordOf(k).error = None
    /\ runs[k].state = "failed" =>
          /\ RecordOf(k).error = Some(ErrorOf(k))
          /\ RecordOf(k).output = None
TimedFromOwnStart(k) ==
    RecordOf(k).duration_ms = Some(runs[k].ended[1] - runs[k].started)
OneRecordEach ==
    /\ Len(tool_calls) = Len(runs)
    /\ \A k \in 1..Len(runs) : runs[k].record = k

====
